---------------------------- MODULE Spec2Model ----------------------------
(***************************************************************************)
(* Model of entrypoint.py: the Prisma IAC scan configuration action.       *)
(*                                                                         *)
(* One run of main() is a straight line of calls                           *)
(*   set_code_path, check_existing_config, search_for_iac, check_iac_type, *)
(*   configure_dirs, configure_tf / configure_cfm, git_commit              *)
(* over a workspace (a checked-out repository).  The workspace persists    *)
(* between runs; everything else is per run.                               *)
(***************************************************************************)
EXTENDS Integers, Sequences, FiniteSets, TLC

VARIABLES
    fs,                 \* the workspace: files and directories under GITHUB_WORKSPACE
    markedTpl,          \* which of the image's templates contain the CFM marker text
    env,                \* whether GITHUB_WORKSPACE is set for this run
    pc,                 \* the call main() is about to make
    interesting_files,  \* main: the list search_for_iac returned
    count_tf,           \* check_iac_type: local counter
    count_cfm,          \* check_iac_type: local counter
    scan_type,          \* main: the value check_iac_type returned
    exit_code,          \* the process's exit status; -1 while it runs
    git_result,         \* what the shell running the git commands returned
    trace,              \* the calls made so far in this run, in order
    fs0,                \* the workspace as the run found it
    runs,               \* runs started so far
    wsRuns              \* runs so far that resolved the workspace path

vars == <<fs, markedTpl, env, pc, interesting_files, count_tf, count_cfm,
          scan_type, exit_code, git_result, trace, fs0, runs, wsRuns>>

runVars == <<interesting_files, count_tf, count_cfm, scan_type, exit_code,
             git_result>>

-----------------------------------------------------------------------------
(* Bounds *)

\* genuine .tf files the user may have in the workspace
MaxTf == 2
\* json/yaml/yml files carrying AWSTemplateFormatVersion the user may have
MaxCfm == 2
\* runs of the program in one behaviour
MaxRuns == 4
\* largest counter value tried on check_iac_type taken alone
MaxCount == 5

-----------------------------------------------------------------------------
(* Files *)

\* The templates the image supplies at /config-tf.yml, /config-cfm.yml and
\* /prisma-cloud-config.yml (copyfile sources), by name.
Templates == {"tfTpl", "cfmTpl", "sharedTpl"}

\* "AWSTemplateFormatVersion" in file.read(), for a configuration file holding
\* a copy of a template or text of the user's own ("user", "userCfm").
HasMarker(content) == content = "userCfm" \/ content \in markedTpl

\* str.lower() on the part of a name after its last dot.
Lower(ext) ==
    CASE ext = "TF" -> "tf"
      [] ext = "JSON" -> "json"
      [] ext = "YML" -> "yml"
      [] ext = "RTF" -> "rtf"
      [] OTHER -> ext

\* s.endswith(suffix) for a suffix without a dot, s being a lower-cased name
\* whose last dot-separated part is ext: "notes.rtf" ends with "tf",
\* "data.geojson" ends with "json".
EndsWithBare(ext, suffix) ==
    CASE suffix = "tf" -> ext \in {"tf", "rtf"}
      [] suffix = "json" -> ext \in {"json", "geojson"}
      [] suffix = "yml" -> ext = "yml"
      [] suffix = "yaml" -> ext = "yaml"
      [] OTHER -> FALSE

\* s.endswith("." + suffix): the last dot-separated part is exactly suffix.
EndsWithDotted(ext, suffix) == ext = suffix

File(dir, base, idx, ext, marker) ==
    [dir |-> dir, base |-> base, idx |-> idx, ext |-> ext, marker |-> marker]

\* code_path + '/dummy.tf'
DummyFile == File("root", "dummy", 0, "tf", FALSE)

\* The user's i-th Terraform file: MAIN1.TF, modules/dummy.tf, MAIN3.TF, ...
TfFile(i) ==
    File(IF i % 2 = 0 THEN "sub" ELSE "root",
         IF i = 2 THEN "dummy" ELSE "main",
         i,
         IF i % 2 = 1 THEN "TF" ELSE "tf",
         FALSE)

\* The user's i-th CloudFormation template: template1.yaml, sub/TEMPLATE2.JSON,
\* template3.yml, ...
CfmFile(i) ==
    File(IF i % 2 = 0 THEN "sub" ELSE "root",
         "template",
         i,
         CASE i % 3 = 1 -> "yaml" [] i % 3 = 2 -> "JSON" [] OTHER -> "yml",
         TRUE)

\* Other files a repository holds, none of them IAC.
NoiseNames == {"notes.rtf", "data.geojson", "compose.yml", "stack.txt"}

NoiseFile(n) ==
    CASE n = "notes.rtf" -> File("root", "notes", 0, "rtf", TRUE)
      [] n = "data.geojson" -> File("sub", "data", 0, "geojson", TRUE)
      [] n = "compose.yml" -> File("root", "compose", 0, "yml", FALSE)
      [] n = "stack.txt" -> File("root", "stack", 0, "txt", TRUE)

RECURSIVE SetToSeq(_)
SetToSeq(S) ==
    IF S = {} THEN <<>>
    ELSE LET x == CHOOSE y \in S : TRUE
         IN <<x>> \o SetToSeq(S \ {x})

\* os.walk(code_path): every file of the tree.
WalkFiles(f) ==
    (IF f.dummy THEN <<DummyFile>> ELSE <<>>)
    \o [i \in 1..f.nTf |-> TfFile(i)]
    \o [i \in 1..f.nCfm |-> CfmFile(i)]
    \o SetToSeq({NoiseFile(n) : n \in f.noise})
    \o (IF f.githubCfg # "absent"
        THEN <<File(".github", "prisma-cloud-config", 0, "yml", HasMarker(f.githubCfg))>>
        ELSE <<>>)
    \o (IF f.prismaCfg # "absent"
        THEN <<File(".prismaCloud", "config", 0, "yml", HasMarker(f.prismaCfg))>>
        ELSE <<>>)

-----------------------------------------------------------------------------
(* The functions of entrypoint.py *)

\* The two isfile tests joined by "and".
check_existing_config_and(f) ==
    LET existing_config == f.prismaCfg # "absent" /\ f.githubCfg # "absent"
    IN IF existing_config /\ f.dummy THEN FALSE ELSE existing_config

\* check_existing_config(code_path)
check_existing_config(f) ==
    LET existing_config == f.prismaCfg # "absent" \/ f.githubCfg # "absent"
    IN IF existing_config /\ f.dummy THEN FALSE ELSE existing_config

\* search_for_iac(code_path)
supported_files == {"tf", "yml", "yaml", "json"}

\* A scan that leaves the placeholder out of its result.
search_for_iac_skipDummy(f) ==
    SelectSeq(WalkFiles(f),
              LAMBDA file : /\ file # DummyFile
                            /\ \E s \in supported_files : EndsWithBare(Lower(file.ext), s))

search_for_iac(f) ==
    SelectSeq(WalkFiles(f),
              LAMBDA file : \E s \in supported_files : EndsWithBare(Lower(file.ext), s))

\* check_iac_type: the counting loop
RECURSIVE CountTf(_)
CountTf(targets) ==
    IF targets = <<>> THEN 0
    ELSE (IF EndsWithDotted(Lower(Head(targets).ext), "tf") THEN 1 ELSE 0)
         + CountTf(Tail(targets))

RECURSIVE CountCfm(_)
CountCfm(targets) ==
    IF targets = <<>> THEN 0
    ELSE (IF /\ \E s \in {"json", "yaml", "yml"} : EndsWithDotted(Lower(Head(targets).ext), s)
             /\ Head(targets).marker
          THEN 1 ELSE 0)
         + CountCfm(Tail(targets))

\* The chain with the second test written >= 1: the placeholder's own match
\* is taken for a conflict.
IacBranch_ge1(ctf, ccfm, hasDummy) ==
    IF ctf > 0 /\ ccfm > 0 /\ ~hasDummy THEN 1
    ELSE IF ctf >= 1 /\ ccfm > 0 /\ hasDummy THEN 2
    ELSE IF ctf = 0 /\ ccfm = 0 THEN 3
    ELSE IF ctf = 1 /\ ccfm > 0 /\ hasDummy THEN 4
    ELSE IF ctf > 0 /\ ccfm = 0 THEN 5
    ELSE IF ccfm > 0 /\ ctf = 0 THEN 6
    ELSE 7

\* check_iac_type: the if/elif chain, by the number of the branch taken
\* (1 and 2 call sys.exit(1), 7 is the final else).
IacBranch(ctf, ccfm, hasDummy) ==
    IF ctf > 0 /\ ccfm > 0 /\ ~hasDummy THEN 1
    ELSE IF ctf > 1 /\ ccfm > 0 /\ hasDummy THEN 2
    ELSE IF ctf = 0 /\ ccfm = 0 THEN 3
    ELSE IF ctf = 1 /\ ccfm > 0 /\ hasDummy THEN 4
    ELSE IF ctf > 0 /\ ccfm = 0 THEN 5
    ELSE IF ccfm > 0 /\ ctf = 0 THEN 6
    ELSE 7

\* The older variant's reading of the second branch: no exit there.
BranchOutcome_noExit2(b) ==
    CASE b = 1 -> "exit1"
      [] b \in {3, 7} -> "none"
      [] b \in {2, 4, 6} -> "cfm"
      [] b = 5 -> "tf"

\* check_iac_type: what each branch does
BranchOutcome(b) ==
    CASE b \in {1, 2} -> "exit1"
      [] b \in {3, 7} -> "none"
      [] b \in {4, 6} -> "cfm"
      [] b = 5 -> "tf"

check_iac_type(ctf, ccfm, hasDummy) == BranchOutcome(IacBranch(ctf, ccfm, hasDummy))

\* configure_dirs(code_path)
configure_dirs(f) ==
    [f EXCEPT !.prismaDir = IF ~f.prismaDir THEN TRUE ELSE @,
              !.githubDir = IF ~f.githubDir THEN TRUE ELSE @]

\* configure_tf leaving the placeholder where real Terraform was found.
configure_tf_keepDummy(is_dummy, f) ==
    [f EXCEPT !.dummy = IF is_dummy THEN TRUE ELSE @,
              !.prismaCfg = "tfTpl",
              !.githubCfg = "sharedTpl"]

\* configure_tf(is_dummy, path)
configure_tf(is_dummy, f) ==
    [f EXCEPT !.dummy = IF is_dummy THEN TRUE ELSE (IF @ THEN FALSE ELSE @),
              !.prismaCfg = "tfTpl",
              !.githubCfg = "sharedTpl"]

\* configure_cfm without the removal of dummy.tf.
configure_cfm_keepDummy(f) ==
    [f EXCEPT !.prismaCfg = "cfmTpl",
              !.githubCfg = "sharedTpl"]

\* configure_cfm(code_path)
configure_cfm(f) ==
    [f EXCEPT !.dummy = IF @ THEN FALSE ELSE @,
              !.prismaCfg = "cfmTpl",
              !.githubCfg = "sharedTpl"]

-----------------------------------------------------------------------------
(* Workspaces *)

NoiseSets == {S \in SUBSET NoiseNames : Cardinality(S) <= 1}

\* Any checked-out repository: with or without a placeholder, configuration
\* from an earlier run or of the administrator's own, and the user's files.
Workspaces ==
    {f \in [dummy : BOOLEAN, prismaDir : BOOLEAN, githubDir : BOOLEAN,
            prismaCfg : {"absent", "tfTpl", "cfmTpl", "userCfm"},
            githubCfg : {"absent", "sharedTpl", "user"},
            nTf : 0..MaxTf, nCfm : 0..MaxCfm, noise : NoiseSets] :
        /\ f.prismaCfg # "absent" => f.prismaDir
        /\ f.githubCfg # "absent" => f.githubDir}

\* A repository with no IAC, no placeholder and no scanner configuration.
FreshWorkspaces ==
    {f \in Workspaces :
        /\ ~f.dummy /\ ~f.prismaDir /\ f.prismaCfg = "absent" /\ f.githubCfg = "absent"
        /\ f.nTf = 0 /\ f.nCfm = 0}

\* main's calls, in the order main makes them
Pipeline ==
    <<"set_code_path", "check_existing_config", "search_for_iac", "check_iac_type",
      "configure_dirs", "configure", "git_commit">>

RunStart ==
    /\ pc = "set_code_path"
    /\ interesting_files = <<>>
    /\ count_tf = 0
    /\ count_cfm = 0
    /\ scan_type = "unset"
    /\ exit_code = -1
    /\ git_result = "not_run"
    /\ trace = <<>>

Init ==
    /\ fs \in Workspaces
    /\ markedTpl \in SUBSET Templates
    /\ env \in BOOLEAN
    /\ RunStart
    /\ fs0 = fs
    /\ runs = 1
    /\ wsRuns = 0

InitFresh ==
    /\ fs \in FreshWorkspaces
    /\ markedTpl \in SUBSET Templates
    /\ env \in BOOLEAN
    /\ RunStart
    /\ fs0 = fs
    /\ runs = 1
    /\ wsRuns = 0

-----------------------------------------------------------------------------
(* main(), one call at a time *)

\* set_code_path returns os.environ['GITHUB_WORKSPACE']
SetCodePath ==
    /\ pc = "set_code_path"
    /\ env
    /\ pc' = "check_existing_config"
    /\ trace' = Append(trace, "set_code_path")
    /\ wsRuns' = wsRuns + 1
    /\ UNCHANGED <<fs, markedTpl, env, runVars, fs0, runs>>

\* set_code_path: KeyError, sys.exit(1)
SetCodePathMissing ==
    /\ pc = "set_code_path"
    /\ ~env
    /\ pc' = "done"
    /\ exit_code' = 1
    /\ trace' = Append(trace, "set_code_path")
    /\ UNCHANGED <<fs, markedTpl, env, interesting_files, count_tf, count_cfm,
                   scan_type, git_result, fs0, runs, wsRuns>>

\* existing_prisma_config is true: sys.exit(0)
ExistingConfigExit ==
    /\ pc = "check_existing_config"
    /\ check_existing_config(fs)
    /\ pc' = "done"
    /\ exit_code' = 0
    /\ trace' = Append(trace, "check_existing_config")
    /\ UNCHANGED <<fs, markedTpl, env, interesting_files, count_tf, count_cfm,
                   scan_type, git_result, fs0, runs, wsRuns>>

\* main creating the directories before the scan.
ExistingConfigScan_dirsFirst ==
    /\ pc = "check_existing_config"
    /\ ~check_existing_config(fs)
    /\ pc' = "search_for_iac"
    /\ fs' = configure_dirs(fs)
    /\ trace' = Append(trace, "check_existing_config")
    /\ UNCHANGED <<markedTpl, env, runVars, fs0, runs, wsRuns>>

\* existing_prisma_config is false: main goes on to the scan
ExistingConfigScan ==
    /\ pc = "check_existing_config"
    /\ ~check_existing_config(fs)
    /\ pc' = "search_for_iac"
    /\ trace' = Append(trace, "check_existing_config")
    /\ UNCHANGED <<fs, markedTpl, env, runVars, fs0, runs, wsRuns>>

\* interesting_files = search_for_iac(repo_code_path)
SearchForIac ==
    /\ pc = "search_for_iac"
    /\ interesting_files' = search_for_iac(fs)
    /\ pc' = "check_iac_type"
    /\ trace' = Append(trace, "search_for_iac")
    /\ UNCHANGED <<fs, markedTpl, env, count_tf, count_cfm, scan_type, exit_code,
                   git_result, fs0, runs, wsRuns>>

\* check_iac_type calls sys.exit(1)
CheckIacTypeConflict ==
    /\ pc = "check_iac_type"
    /\ LET ctf == CountTf(interesting_files)
           ccfm == CountCfm(interesting_files)
       IN /\ check_iac_type(ctf, ccfm, fs.dummy) = "exit1"
          /\ count_tf' = ctf
          /\ count_cfm' = ccfm
    /\ pc' = "done"
    /\ exit_code' = 1
    /\ trace' = Append(trace, "check_iac_type")
    /\ UNCHANGED <<fs, markedTpl, env, interesting_files, scan_type, git_result,
                   fs0, runs, wsRuns>>

\* scan_type = check_iac_type(interesting_files, repo_code_path)
CheckIacTypeReturn ==
    /\ pc = "check_iac_type"
    /\ LET ctf == CountTf(interesting_files)
           ccfm == CountCfm(interesting_files)
       IN /\ check_iac_type(ctf, ccfm, fs.dummy) # "exit1"
          /\ scan_type' = check_iac_type(ctf, ccfm, fs.dummy)
          /\ count_tf' = ctf
          /\ count_cfm' = ccfm
    /\ pc' = "configure_dirs"
    /\ trace' = Append(trace, "check_iac_type")
    /\ UNCHANGED <<fs, markedTpl, env, interesting_files, exit_code, git_result,
                   fs0, runs, wsRuns>>

\* configure_dirs(repo_code_path)
ConfigureDirs ==
    /\ pc = "configure_dirs"
    /\ fs' = configure_dirs(fs)
    /\ pc' = "configure"
    /\ trace' = Append(trace, "configure_dirs")
    /\ UNCHANGED <<markedTpl, env, runVars, fs0, runs, wsRuns>>

\* scan_type == "tf": configure_tf(is_dummy=False, path=repo_code_path)
ConfigureTf ==
    /\ pc = "configure"
    /\ scan_type = "tf"
    /\ fs' = configure_tf(FALSE, fs)
    /\ pc' = "git_commit"
    /\ trace' = Append(trace, "configure")
    /\ UNCHANGED <<markedTpl, env, runVars, fs0, runs, wsRuns>>

\* scan_type == "cfm": configure_cfm(repo_code_path)
ConfigureCfm ==
    /\ pc = "configure"
    /\ scan_type = "cfm"
    /\ fs' = configure_cfm(fs)
    /\ pc' = "git_commit"
    /\ trace' = Append(trace, "configure")
    /\ UNCHANGED <<markedTpl, env, runVars, fs0, runs, wsRuns>>

\* scan_type == "none": configure_tf(is_dummy=True, path=repo_code_path)
ConfigureDummy ==
    /\ pc = "configure"
    /\ scan_type = "none"
    /\ fs' = configure_tf(TRUE, fs)
    /\ pc' = "git_commit"
    /\ trace' = Append(trace, "configure")
    /\ UNCHANGED <<markedTpl, env, runVars, fs0, runs, wsRuns>>

\* main passing the shell's status on.
ExitAfterGit_checked(status) == IF status = "ok" THEN 0 ELSE 1

\* What main does with the status os.system returns: nothing.  main returns
\* and the interpreter exits 0.
ExitAfterGit(status) == 0

\* git_commit(): the shell runs the git commands; commit or push may fail.
GitCommit ==
    /\ pc = "git_commit"
    /\ \E status \in {"ok", "commit_failed", "push_failed"} :
          /\ git_result' = status
          /\ exit_code' = ExitAfterGit(status)
    /\ pc' = "done"
    /\ trace' = Append(trace, "git_commit")
    /\ UNCHANGED <<fs, markedTpl, env, interesting_files, count_tf, count_cfm,
                   scan_type, fs0, runs, wsRuns>>

\* The action is run again on the same workspace.
StartRun ==
    /\ pc \in {"done", "idle"}
    /\ runs < MaxRuns
    /\ env' \in BOOLEAN
    /\ pc' = "set_code_path"
    /\ interesting_files' = <<>>
    /\ count_tf' = 0
    /\ count_cfm' = 0
    /\ scan_type' = "unset"
    /\ exit_code' = -1
    /\ git_result' = "not_run"
    /\ trace' = <<>>
    /\ fs0' = fs
    /\ runs' = runs + 1
    /\ UNCHANGED <<fs, markedTpl, wsRuns>>

\* Between runs the user adds a file to the repository.
UserAdd ==
    /\ pc \in {"done", "idle"}
    /\ \/ /\ fs.nTf < MaxTf
          /\ fs' = [fs EXCEPT !.nTf = @ + 1]
       \/ /\ fs.nCfm < MaxCfm
          /\ fs' = [fs EXCEPT !.nCfm = @ + 1]
       \/ \E n \in NoiseNames :
             /\ fs.noise = {}
             /\ fs' = [fs EXCEPT !.noise = {n}]
    /\ pc' = "idle"
    /\ UNCHANGED <<markedTpl, env, runVars, trace, fs0, runs, wsRuns>>

Next ==
    \/ SetCodePath
    \/ SetCodePathMissing
    \/ ExistingConfigExit
    \/ ExistingConfigScan
    \/ SearchForIac
    \/ CheckIacTypeConflict
    \/ CheckIacTypeReturn
    \/ ConfigureDirs
    \/ ConfigureTf
    \/ ConfigureCfm
    \/ ConfigureDummy
    \/ GitCommit
    \/ StartRun

\* Repeated runs on a workspace nobody else touches.
Spec == Init /\ [][Next]_vars

NextUser == Next \/ UserAdd

\* Repeated runs on a repository that starts empty and that the user adds to.
SpecUser == InitFresh /\ [][NextUser]_vars

-----------------------------------------------------------------------------
(* check_iac_type taken alone, on every pair of counters *)

InitPure ==
    /\ fs \in {f \in Workspaces :
                 /\ ~f.prismaDir /\ ~f.githubDir
                 /\ f.prismaCfg = "absent" /\ f.githubCfg = "absent"
                 /\ f.nTf = 0 /\ f.nCfm = 0 /\ f.noise = {}}
    /\ markedTpl = {}
    /\ env = TRUE
    /\ pc = "check_iac_type"
    /\ interesting_files = <<>>
    /\ count_tf \in 0..MaxCount
    /\ count_cfm \in 0..MaxCount
    /\ scan_type = "unset"
    /\ exit_code = -1
    /\ git_result = "not_run"
    /\ trace = <<>>
    /\ fs0 = fs
    /\ runs = 1
    /\ wsRuns = 1

\* The if/elif chain of check_iac_type applied to the counters.
PureClassify ==
    /\ pc = "check_iac_type"
    /\ LET r == check_iac_type(count_tf, count_cfm, fs.dummy)
       IN IF r = "exit1"
          THEN /\ exit_code' = 1
               /\ UNCHANGED scan_type
          ELSE /\ scan_type' = r
               /\ UNCHANGED exit_code
    /\ pc' = "returned"
    /\ UNCHANGED <<fs, markedTpl, env, interesting_files, count_tf, count_cfm,
                   git_result, trace, fs0, runs, wsRuns>>

NextPure == PureClassify

SpecPure == InitPure /\ [][NextPure]_vars

-----------------------------------------------------------------------------
(* Vocabulary of the properties *)

\* The call c has been made in this run.
Called(c) == \E i \in 1..Len(trace) : trace[i] = c

\* What the process did in the end: the classification, or the exit.
Outcome == IF exit_code = 1 THEN "exit1" ELSE scan_type

\* os.path.isfile on either configuration file
HasConfig(f) == f.prismaCfg # "absent" \/ f.githubCfg # "absent"

\* Real IAC in a workspace: a .tf file other than the root placeholder; a
\* json/yaml/yml file containing the marker.
RealTf(f) == f.nTf > 0
RealCfm(f) == f.nCfm > 0 \/ HasMarker(f.prismaCfg) \/ HasMarker(f.githubCfg)

\* The conflict of the classification policy, on the counters of this run.
Conflict == count_tf > 0 /\ count_cfm > 0 /\ (~fs0.dummy \/ count_tf > 1)

-----------------------------------------------------------------------------
(* C2 *)

\* The rules of the stated policy that apply to a triple, by number.
PolicyRules(ctf, ccfm, d) ==
    {r \in 1..6 :
        \/ r = 1 /\ ctf > 0 /\ ccfm > 0 /\ ~d
        \/ r = 2 /\ ctf > 0 /\ ccfm > 0 /\ d /\ ctf > 1
        \/ r = 3 /\ ctf > 0 /\ ccfm > 0 /\ d /\ ctf = 1
        \/ r = 4 /\ ctf = 0 /\ ccfm = 0
        \/ r = 5 /\ ctf > 0 /\ ccfm = 0
        \/ r = 6 /\ ccfm > 0 /\ ctf = 0}

PolicyOutcome(r) ==
    CASE r \in {1, 2} -> "exit1"
      [] r \in {3, 6} -> "cfm"
      [] r = 4 -> "none"
      [] r = 5 -> "tf"

\* C2: for every Terraform counter, CloudFormation counter and placeholder
\* presence, exactly one rule of the stated policy applies and check_iac_type
\* ends as that rule says (exit non-zero, cfm, none or tf); the final else is
\* never the branch taken, so none is returned only when both counters are 0.
Thm_C2_ClassifierMatchesPolicy ==
    pc = "returned" =>
        LET rules == PolicyRules(count_tf, count_cfm, fs.dummy)
        IN /\ Cardinality(rules) = 1
           /\ \A r \in rules : Outcome = PolicyOutcome(r)
           /\ IacBranch(count_tf, count_cfm, fs.dummy) # 7
           /\ (scan_type = "none" => count_tf = 0 /\ count_cfm = 0)
           /\ (exit_code = 1 <=> scan_type = "unset")

\* The placeholder-aware rule has been applied: one .tf, a template, dummy.tf.
Wit_C2_PlaceholderRule ==
    /\ pc = "returned"
    /\ count_tf = 1 /\ count_cfm > 1 /\ fs.dummy
    /\ scan_type = "cfm"

-----------------------------------------------------------------------------
(* C3 *)

\* C3: once the classifier of a run has counted a conflict (both counters
\* positive and either no placeholder or more than one .tf), the process has
\* ended with status 1, the workspace is as the run found it (no directory, no
\* configuration file, the placeholder neither created nor removed) and the
\* commit step has not been invoked.
Thm_C3_ConflictWritesNothing ==
    (Called("check_iac_type") /\ Conflict) =>
        /\ pc = "done"
        /\ exit_code = 1
        /\ scan_type = "unset"
        /\ fs = fs0
        /\ ~Called("configure_dirs") /\ ~Called("configure")
        /\ ~Called("git_commit") /\ git_result = "not_run"

\* A conflict exit with a placeholder in place and no directory yet.
Wit_C3_ConflictBesidePlaceholder ==
    /\ pc = "done" /\ Called("check_iac_type") /\ Conflict
    /\ fs0.dummy /\ ~fs0.prismaDir /\ fs0.nTf > 0 /\ fs0.nCfm > 0

-----------------------------------------------------------------------------
(* C5 *)

\* The existing-config check, on the workspace the run found.
Inv_C5 ==
    /\ (Called("check_existing_config") /\ HasConfig(fs0) /\ ~fs0.dummy) =>
          /\ pc = "done"
          /\ exit_code = 0
          /\ trace = <<"set_code_path", "check_existing_config">>
          /\ interesting_files = <<>>
          /\ fs = fs0
          /\ git_result = "not_run"
    /\ (Called("check_existing_config") /\ fs0.dummy) =>
          /\ pc # "done" \/ Called("search_for_iac")
          /\ pc \in {"search_for_iac", "check_iac_type", "configure_dirs",
                     "configure", "git_commit", "done"}

\* C5: a run on a workspace that holds at least one of the two configuration
\* files and no dummy.tf ends at the existing-config check with status 0: no
\* scan, the workspace unchanged, no commit; a run that completed the commit
\* step and left no placeholder is followed by such a run.  When dummy.tf
\* exists the check returns false and the scan is made.  (A run is on a
\* workspace once set_code_path has returned its path.)
Thm_C5_ExistingConfigNoOp ==
    /\ []Inv_C5
    /\ [][(runs' = runs + 1 /\ git_result # "not_run" /\ exit_code = 0 /\ ~fs.dummy)
            => (HasConfig(fs0') /\ ~fs0'.dummy /\ fs0' = fs)]_vars

\* The no-op exit taken with only the .github configuration file present.
Wit_C5_NoOpOnGithubConfigOnly ==
    /\ pc = "done" /\ exit_code = 0 /\ Called("check_existing_config")
    /\ fs0.prismaCfg = "absent" /\ fs0.githubCfg # "absent" /\ ~fs0.dummy
    /\ fs0.nCfm > 0

-----------------------------------------------------------------------------
(* C6 *)

\* C6: once the configuration writer of a run has run, both configuration
\* files exist, .prismaCloud/config.yml is the CloudFormation template exactly
\* when the classification is cfm and the Terraform template otherwise, and
\* dummy.tf exists exactly when the classification is none.
Thm_C6_WriterPostcondition ==
    Called("configure") =>
        /\ fs.prismaDir /\ fs.githubDir
        /\ fs.githubCfg = "sharedTpl"
        /\ (fs.prismaCfg = "cfmTpl" <=> scan_type = "cfm")
        /\ (fs.prismaCfg = "tfTpl" <=> scan_type # "cfm")
        /\ (fs.dummy <=> scan_type = "none")
        /\ scan_type \in {"tf", "cfm", "none"}

\* A completed run that classified cfm and deleted the placeholder it found.
Wit_C6_CfmDeletesPlaceholder ==
    /\ pc = "done" /\ Called("configure")
    /\ scan_type = "cfm" /\ fs0.dummy /\ ~fs.dummy /\ fs0.prismaCfg = "tfTpl"

-----------------------------------------------------------------------------
(* C7 *)

\* C7: the commit publisher ends the run with exit status 0 whatever the git
\* commands did; it is invoked once (no retry) and leaves the workspace, with
\* the configuration files the writer wrote, as it found it.
Thm_C7_GitOutcomeIgnored ==
    /\ [](git_result # "not_run" =>
            /\ pc = "done"
            /\ exit_code = 0
            /\ trace = Pipeline
            /\ fs.prismaCfg \in {"tfTpl", "cfmTpl"}
            /\ fs.githubCfg = "sharedTpl")
    /\ [][pc = "git_commit" =>
            /\ fs' = fs
            /\ exit_code' = 0
            /\ pc' = "done"
            /\ git_result' \in {"ok", "commit_failed", "push_failed"}]_vars

\* A run whose push failed has ended.
Wit_C7_PushFailed ==
    /\ pc = "done" /\ git_result = "push_failed" /\ Called("git_commit")

-----------------------------------------------------------------------------
(* C8 *)

IsPrefix(s, t) == Len(s) <= Len(t) /\ \A i \in 1..Len(s) : s[i] = t[i]

\* The calls of a run and what they may have done so far.
Inv_C8 ==
    /\ IsPrefix(trace, Pipeline)
    /\ (fs # fs0 => scan_type \in {"tf", "cfm", "none"} /\ Called("check_iac_type"))
    /\ (scan_type # "unset" => Called("check_iac_type"))
    /\ (Called("git_commit") =>
          /\ Called("configure")
          /\ fs.prismaCfg \in {"tfTpl", "cfmTpl"} /\ fs.githubCfg = "sharedTpl")
    /\ ((pc = "done" /\ Len(trace) < Len(Pipeline)) =>
          /\ git_result = "not_run"
          /\ ~Called("git_commit")
          /\ fs = fs0)

\* C8: in every run the calls made are a prefix of path resolver,
\* existing-config checker, file scanner, type classifier, directory
\* provisioner, configuration writer, commit publisher (each at most once, in
\* that order); no step changes the workspace before the classifier has
\* returned a classification; the classification, once set, is not changed
\* within the run; the commit publisher runs only after both configuration
\* files are written and never on a run that ends at the missing-environment,
\* existing-config or conflict exit.
Thm_C8_PipelineOrder ==
    /\ []Inv_C8
    /\ [][fs' # fs => scan_type \in {"tf", "cfm", "none"}]_vars
    /\ [][(scan_type # "unset" /\ runs' = runs) => scan_type' = scan_type]_vars
    /\ [][(runs' = runs /\ trace' # trace) =>
            /\ Len(trace') = Len(trace) + 1
            /\ trace'[Len(trace')] = pc]_vars

\* A run that went through all seven calls and wrote the placeholder.
Wit_C8_FullPipeline ==
    /\ pc = "done" /\ trace = Pipeline /\ scan_type = "none"
    /\ ~fs0.prismaDir /\ fs.prismaDir /\ fs.dummy /\ ~fs0.dummy

-----------------------------------------------------------------------------
(* C9 *)

\* The candidates of the scan that check_iac_type counts as Terraform.
TfCandidates ==
    {i \in 1..Len(interesting_files) :
        EndsWithDotted(Lower(interesting_files[i].ext), "tf")}

\* C9: when the classifier takes the placeholder-aware branch (both counters
\* positive, dummy.tf at the root, Terraform counter 1), the one .tf candidate
\* is the root dummy.tf and the workspace holds no genuine .tf file; whenever
\* dummy.tf exists when the scan runs it is among the candidates and the
\* Terraform counter is at least 1.
Thm_C9_LoneTfIsPlaceholder ==
    /\ (Called("check_iac_type") /\ count_tf = 1 /\ count_cfm > 0 /\ fs0.dummy) =>
          /\ scan_type = "cfm"
          /\ \A i \in TfCandidates : interesting_files[i] = DummyFile
          /\ Cardinality(TfCandidates) = 1
          /\ fs0.nTf = 0
    /\ (Called("search_for_iac") /\ fs0.dummy) =>
          \E i \in 1..Len(interesting_files) : interesting_files[i] = DummyFile
    /\ (Called("check_iac_type") /\ fs0.dummy) => count_tf >= 1
    /\ (Called("check_iac_type") => count_tf = Cardinality(TfCandidates))

\* The placeholder-aware branch taken on a repository with two templates.
Wit_C9_PlaceholderBranchTaken ==
    /\ Called("check_iac_type") /\ count_tf = 1 /\ count_cfm > 1 /\ fs0.dummy
    /\ scan_type = "cfm" /\ fs0.nCfm > 1 /\ fs0.noise = {"notes.rtf"}

-----------------------------------------------------------------------------
(* C10 *)

-----------------------------------------------------------------------------
(* C4 *)

\* C4: on a workspace with no real IAC (no .tf file but a root dummy.tf, no
\* json/yaml/yml file containing the marker) a run that reaches the classifier
\* classifies none and ends with dummy.tf at the root; a dummy.tf that was
\* there before the run is still there after it.
Cex_C4_NoIacKeepsPlaceholder ==
    (Called("check_iac_type") /\ ~RealTf(fs0) /\ ~RealCfm(fs0)) =>
        /\ scan_type = "none"
        /\ (pc = "done" => fs.dummy)
        /\ (pc = "done" /\ fs0.dummy => fs.dummy)

-----------------------------------------------------------------------------
(* C1 *)

\* The template .prismaCloud/config.yml should be for the IAC of a workspace.
TemplateFor(f) == IF RealTf(f) THEN "tfTpl" ELSE "cfmTpl"

\* C1: on a repository that starts with no IAC and no scanner configuration
\* and that the user adds files to between runs, every run on the workspace
\* that starts with real IAC of exactly one type ends with dummy.tf absent and
\* .prismaCloud/config.yml the template of that type.  (Stated for templates
\* that do not themselves contain the marker.)
Cex_C1_ConfigFollowsIac ==
    (/\ markedTpl = {}
     /\ pc = "done" /\ Called("check_existing_config")
     /\ RealTf(fs0) # RealCfm(fs0)) =>
        /\ ~fs.dummy
        /\ fs.prismaCfg = TemplateFor(fs0)

=============================================================================
